---- MODULE Spec2Model ----
(***************************************************************************)
(* Model of src/src/weather_dashboard.py: WeatherDashboard and main().     *)
(* The program is sequential; pc is main()'s position.  Every call to an   *)
(* external service (KMS, S3, the weather provider) is appended to calls   *)
(* together with its outcome, which is chosen nondeterministically.        *)
(***************************************************************************)
EXTENDS Integers, Sequences, FiniteSets, TLC

VARIABLES
    pc,           \* position of main(): "kms", "bucket", "for", "fetch", "summary",
                  \* "save", "report", "done", or "crashed" (uncaught exception)
    idx,          \* index into cities of the loop of main()
    environ,      \* os.environ['AWS_KMS_KEY_ID']
    kms_key_id,   \* WeatherDashboard.kms_key_id
    bucketExists, \* whether the bucket of AWS_BUCKET_NAME exists in S3
    weather_data, \* main()'s local weather_data (the dict object shared with save_to_s3)
    success,      \* main()'s local success
    calls,        \* sequence of the method entries and external calls made so far
    console       \* sequence of the lines printed so far

vars == <<pc, idx, environ, kms_key_id, bucketExists, weather_data, success, calls, console>>

\* ---------------------------------------------------------------- bounds
\* number of invocations of create_bucket_if_not_exists in SpecBucket
MaxBucketCalls == 3

\* ---------------------------------------------------------------- values
\* Python's None where a string is expected
PyNone == "<None>"

\* the identifier found in the environment, when one is configured
EnvKeyIds == {"key-env"}

\* identifiers response['KeyMetadata']['KeyId'] may carry
NewKeyIds == {"key-new"}

\* `if self.kms_key_id:` -- None and the empty string are falsy
KeySet(k) == k \notin {PyNone, ""}

\* the list of main()
cities_reversed == <<"New York", "Ontario", "Calgary">>
cities == <<"Calgary", "Ontario", "New York">>

\* the paths main() reads from the payload
RequiredFields == {"main.temp", "main.feels_like", "main.humidity", "weather.0.description"}

\* the paths a provider payload may carry ("cod" stands for any other field)
PayloadFields == RequiredFields \cup {"cod"}

\* a Python value that is None or a dict with the given paths
NoData == [present |-> FALSE, keys |-> {}]
Dict(ks) == [present |-> TRUE, keys |-> ks]

\* `if weather_data:` -- None and the empty dict are falsy
Truthy(d) == d.present /\ d.keys # {}

\* one entry of calls: a method entry or an external call, the city and key
\* identifier it was given, and whether it returned (ok) or raised
Call(op, city, key, ok) ==
    [op |-> op, city |-> city, key |-> key, ok |-> ok, data |-> NoData]

\* the entry of requests.get with the value fetch_weather returns for it
GetCall(city, ok, d) ==
    [op |-> "get", city |-> city, key |-> PyNone, ok |-> ok, data |-> d]

\* ---------------------------------------------------------------- methods
\* WeatherDashboard.create_kms_key_if_not_exists
create_kms_key_if_not_exists ==
    /\ UNCHANGED bucketExists
    /\ IF ~KeySet(environ)
       THEN \/ \* create_key raises: caught at line 42
               /\ kms_key_id' = environ
               /\ UNCHANGED environ
               /\ calls' = calls \o <<Call("create_kms_key_if_not_exists", "", PyNone, TRUE),
                                      Call("create_key", "", PyNone, FALSE)>>
               /\ console' = console \o <<"Creating a new KMS key...",
                                          "Error creating or using KMS key">>
            \/ \* create_key returns a response without KeyMetadata.KeyId: KeyError, caught
               /\ kms_key_id' = environ
               /\ UNCHANGED environ
               /\ calls' = calls \o <<Call("create_kms_key_if_not_exists", "", PyNone, TRUE),
                                      Call("create_key", "", PyNone, TRUE)>>
               /\ console' = console \o <<"Creating a new KMS key...",
                                          "Error creating or using KMS key">>
            \/ \E id \in NewKeyIds :
               /\ kms_key_id' = id
               /\ environ' = id
               /\ calls' = calls \o <<Call("create_kms_key_if_not_exists", "", PyNone, TRUE),
                                      Call("create_key", "", id, TRUE)>>
               /\ console' = console \o <<"Creating a new KMS key...", "Created KMS key">>
       ELSE /\ kms_key_id' = environ
            /\ UNCHANGED environ
            /\ calls' = Append(calls, Call("create_kms_key_if_not_exists", "", PyNone, TRUE))
            /\ console' = Append(console, "Using existing KMS key")

\* the outcomes head_bucket can have: it cannot report a bucket that is absent
HeadOutcomes == IF bucketExists THEN {TRUE, FALSE} ELSE {FALSE}

\* lines 48-49: head_bucket returned
BucketFound ==
    /\ UNCHANGED bucketExists
    /\ calls' = calls \o <<Call("create_bucket_if_not_exists", "", kms_key_id, TRUE),
                           Call("head_bucket", "", PyNone, TRUE)>>
    /\ console' = Append(console, "Bucket exists")

\* lines 48-49 followed by the encryption step of lines 57-73
BucketFoundThenEncrypt ==
    /\ UNCHANGED bucketExists
    /\ IF KeySet(kms_key_id)
       THEN \E enc_ok \in BOOLEAN :
            /\ calls' = calls \o <<Call("create_bucket_if_not_exists", "", kms_key_id, TRUE),
                                   Call("head_bucket", "", PyNone, TRUE),
                                   Call("put_bucket_encryption", "", kms_key_id, enc_ok)>>
            /\ console' = console \o
                  <<"Bucket exists",
                    IF enc_ok THEN "Default encryption set with KMS key"
                              ELSE "Error creating bucket">>
       ELSE /\ calls' = calls \o <<Call("create_bucket_if_not_exists", "", kms_key_id, TRUE),
                                   Call("head_bucket", "", PyNone, TRUE)>>
            /\ console' = console \o
                  <<"Bucket exists",
                    "Error: KMS key ID is not set. Bucket encryption skipped.">>

\* lines 50-75 without the test of line 57
BucketCreateNoKeyTest ==
    \E create_ok \in BOOLEAN :
    IF ~create_ok
    THEN /\ UNCHANGED bucketExists
         /\ calls' = calls \o <<Call("create_bucket_if_not_exists", "", kms_key_id, TRUE),
                                Call("head_bucket", "", PyNone, FALSE),
                                Call("create_bucket", "", PyNone, FALSE)>>
         /\ console' = console \o <<"Creating bucket", "Error creating bucket">>
    ELSE /\ bucketExists' = TRUE
         /\ \E enc_ok \in BOOLEAN :
            /\ calls' = calls \o <<Call("create_bucket_if_not_exists", "", kms_key_id, TRUE),
                                   Call("head_bucket", "", PyNone, FALSE),
                                   Call("create_bucket", "", PyNone, TRUE),
                                   Call("put_bucket_encryption", "", kms_key_id, enc_ok)>>
            /\ console' = console \o
                  <<"Creating bucket", "Successfully created bucket",
                    IF enc_ok THEN "Default encryption set with KMS key"
                              ELSE "Error creating bucket">>

\* lines 50-75: head_bucket raised, whatever the reason (bare except)
BucketCreate ==
    \E create_ok \in BOOLEAN :
    IF ~create_ok
    THEN \* create_bucket raises: caught at line 74
         /\ UNCHANGED bucketExists
         /\ calls' = calls \o <<Call("create_bucket_if_not_exists", "", kms_key_id, TRUE),
                                Call("head_bucket", "", PyNone, FALSE),
                                Call("create_bucket", "", PyNone, FALSE)>>
         /\ console' = console \o <<"Creating bucket", "Error creating bucket">>
    ELSE /\ bucketExists' = TRUE
         /\ IF KeySet(kms_key_id)
            THEN \* put_bucket_encryption may raise: caught at line 74
                 \E enc_ok \in BOOLEAN :
                 /\ calls' = calls \o
                       <<Call("create_bucket_if_not_exists", "", kms_key_id, TRUE),
                         Call("head_bucket", "", PyNone, FALSE),
                         Call("create_bucket", "", PyNone, TRUE),
                         Call("put_bucket_encryption", "", kms_key_id, enc_ok)>>
                 /\ console' = console \o
                       <<"Creating bucket", "Successfully created bucket",
                         IF enc_ok THEN "Default encryption set with KMS key"
                                   ELSE "Error creating bucket">>
            ELSE \* line 73
                 /\ calls' = calls \o
                       <<Call("create_bucket_if_not_exists", "", kms_key_id, TRUE),
                         Call("head_bucket", "", PyNone, FALSE),
                         Call("create_bucket", "", PyNone, TRUE)>>
                 /\ console' = console \o
                       <<"Creating bucket", "Successfully created bucket",
                         "Error: KMS key ID is not set. Bucket encryption skipped.">>

\* create_bucket_if_not_exists applying the encryption step to a bucket it found
create_bucket_encrypt_found ==
    /\ UNCHANGED <<kms_key_id, environ>>
    /\ \E head_ok \in HeadOutcomes :
       IF head_ok THEN BucketFoundThenEncrypt ELSE BucketCreate

\* create_bucket_if_not_exists whose except branch clears the key identifier
create_bucket_clear_key ==
    /\ UNCHANGED environ
    /\ \E head_ok \in HeadOutcomes :
       IF head_ok
       THEN BucketFound /\ UNCHANGED kms_key_id
       ELSE BucketCreate /\ kms_key_id' = PyNone

\* WeatherDashboard.create_bucket_if_not_exists
create_bucket_if_not_exists ==
    /\ UNCHANGED <<kms_key_id, environ>>
    /\ \E head_ok \in HeadOutcomes :
       IF head_ok THEN BucketFound ELSE BucketCreate

\* WeatherDashboard.fetch_weather; its result is bound to main()'s weather_data
fetch_weather(city) ==
    /\ UNCHANGED <<kms_key_id, environ, bucketExists>>
    /\ \/ \* requests.get or raise_for_status raises RequestException: line 90
          /\ weather_data' = NoData
          /\ calls' = calls \o <<Call("fetch_weather", city, PyNone, TRUE),
                                 GetCall(city, FALSE, NoData)>>
          /\ console' = Append(console, "Error fetching weather data")
       \/ \E ks \in SUBSET PayloadFields :
          /\ weather_data' = Dict(ks)
          /\ calls' = calls \o <<Call("fetch_weather", city, PyNone, TRUE),
                                 GetCall(city, TRUE, Dict(ks))>>
          /\ UNCHANGED console

\* save_to_s3 without the test of line 104
save_to_s3_no_key_test(city) ==
    /\ UNCHANGED <<kms_key_id, environ, bucketExists>>
    /\ IF ~Truthy(weather_data)
       THEN /\ success' = "False"
            /\ calls' = Append(calls, Call("save_to_s3", city, kms_key_id, TRUE))
            /\ UNCHANGED <<weather_data, console>>
       ELSE /\ weather_data' = Dict(weather_data.keys \cup {"timestamp"})
            /\ \E put_ok \in BOOLEAN :
               /\ success' = IF put_ok THEN "True" ELSE "False"
               /\ calls' = calls \o <<Call("save_to_s3", city, kms_key_id, TRUE),
                                      Call("put_object", city, kms_key_id, put_ok)>>
               /\ console' = console \o
                     <<"Saving data to S3 with KMS key",
                       IF put_ok THEN "Successfully saved data" ELSE "Error saving to S3">>

\* WeatherDashboard.save_to_s3, called on main()'s weather_data; its result is
\* bound to main()'s success
save_to_s3(city) ==
    /\ UNCHANGED <<kms_key_id, environ, bucketExists>>
    /\ IF ~Truthy(weather_data)
       THEN \* lines 96-97
            /\ success' = "False"
            /\ calls' = Append(calls, Call("save_to_s3", city, kms_key_id, TRUE))
            /\ UNCHANGED <<weather_data, console>>
       ELSE \* line 103 runs before the test of line 104
            /\ weather_data' = Dict(weather_data.keys \cup {"timestamp"})
            /\ IF ~KeySet(kms_key_id)
               THEN \* ValueError, caught at line 118
                    /\ success' = "False"
                    /\ calls' = Append(calls, Call("save_to_s3", city, kms_key_id, TRUE))
                    /\ console' = Append(console, "Error saving to S3")
               ELSE \E put_ok \in BOOLEAN :
                    /\ success' = IF put_ok THEN "True" ELSE "False"
                    /\ calls' = calls \o <<Call("save_to_s3", city, kms_key_id, TRUE),
                                           Call("put_object", city, kms_key_id, put_ok)>>
                    /\ console' = console \o
                          <<"Saving data to S3 with KMS key",
                            IF put_ok THEN "Successfully saved data" ELSE "Error saving to S3">>

\* ---------------------------------------------------------------- main()
\* line 126
MainKms ==
    /\ pc = "kms"
    /\ create_kms_key_if_not_exists
    /\ pc' = "bucket"
    /\ UNCHANGED <<idx, weather_data, success>>

\* line 129
MainBucket ==
    /\ pc = "bucket"
    /\ create_bucket_if_not_exists
    /\ pc' = "for"
    /\ UNCHANGED <<idx, weather_data, success>>

\* lines 133-134: the for statement takes the next city or ends main()
MainFor ==
    /\ pc = "for"
    /\ IF idx <= Len(cities)
       THEN /\ pc' = "fetch"
            /\ console' = Append(console, "Fetching weather for city")
       ELSE /\ pc' = "done"
            /\ UNCHANGED console
    /\ UNCHANGED <<idx, environ, kms_key_id, bucketExists, weather_data, success, calls>>

\* line 135
MainFetch ==
    /\ pc = "fetch"
    /\ fetch_weather(cities[idx])
    /\ pc' = "summary"
    /\ UNCHANGED <<idx, success>>

\* lines 136-152 with the save reached on both branches of the test of line 136
MainSummarySaveAnyway ==
    /\ pc = "summary"
    /\ IF Truthy(weather_data)
       THEN IF RequiredFields \subseteq weather_data.keys
            THEN /\ pc' = "save"
                 /\ console' = Append(console, "Temperature, Feels like, Humidity, Conditions")
                 /\ UNCHANGED idx
            ELSE /\ pc' = "crashed"
                 /\ console' = Append(console, "Traceback")
                 /\ UNCHANGED idx
       ELSE /\ pc' = "save"
            /\ console' = Append(console, "Failed to fetch weather data for city")
            /\ UNCHANGED idx
    /\ UNCHANGED <<environ, kms_key_id, bucketExists, weather_data, success, calls>>

\* lines 136-145 and 151-152: a missing path raises KeyError or IndexError at
\* lines 137-140, which nothing catches
MainSummary ==
    /\ pc = "summary"
    /\ IF Truthy(weather_data)
       THEN IF RequiredFields \subseteq weather_data.keys
            THEN /\ pc' = "save"
                 /\ console' = Append(console, "Temperature, Feels like, Humidity, Conditions")
                 /\ UNCHANGED idx
            ELSE /\ pc' = "crashed"
                 /\ console' = Append(console, "Traceback")
                 /\ UNCHANGED idx
       ELSE /\ pc' = "for"
            /\ idx' = idx + 1
            /\ console' = Append(console, "Failed to fetch weather data for city")
    /\ UNCHANGED <<environ, kms_key_id, bucketExists, weather_data, success, calls>>

\* line 148
MainSave ==
    /\ pc = "save"
    /\ save_to_s3(cities[idx])
    /\ pc' = "report"
    /\ UNCHANGED idx

\* lines 149-150, then back to the for statement
MainReport ==
    /\ pc = "report"
    /\ console' = IF success = "True"
                  THEN Append(console, "Weather data for city saved to S3!")
                  ELSE console
    /\ pc' = "for"
    /\ idx' = idx + 1
    /\ UNCHANGED <<environ, kms_key_id, bucketExists, weather_data, success, calls>>

\* the state after WeatherDashboard() of line 123
Init ==
    /\ pc = "kms"
    /\ idx = 1
    /\ environ \in {PyNone, ""} \cup EnvKeyIds
    /\ kms_key_id = PyNone
    /\ bucketExists \in BOOLEAN
    /\ weather_data = NoData
    /\ success = "unbound"
    /\ calls = <<>>
    /\ console = <<>>

Next ==
    \/ MainKms
    \/ MainBucket
    \/ MainFor
    \/ MainFetch
    \/ MainSummary
    \/ MainSave
    \/ MainReport

Spec == Init /\ [][Next]_vars

\* ------------------------------------------- create_bucket_if_not_exists alone
\* the number of entries of calls with the given op
RECURSIVE CountOp(_, _)
CountOp(s, op) ==
    IF s = <<>> THEN 0
    ELSE (IF Head(s).op = op THEN 1 ELSE 0) + CountOp(Tail(s), op)

\* the configured and the unset values kms_key_id can hold
KeyValues == {PyNone, ""} \cup EnvKeyIds \cup NewKeyIds

\* create_bucket_if_not_exists invoked repeatedly on one WeatherDashboard
BucketCall ==
    /\ CountOp(calls, "create_bucket_if_not_exists") < MaxBucketCalls
    /\ create_bucket_if_not_exists
    /\ UNCHANGED <<pc, idx, weather_data, success>>

InitBucket ==
    /\ pc = "bucket"
    /\ idx = 1
    /\ environ = PyNone
    /\ kms_key_id \in KeyValues
    /\ bucketExists \in BOOLEAN
    /\ weather_data = NoData
    /\ success = "unbound"
    /\ calls = <<>>
    /\ console = <<>>

NextBucket == BucketCall

SpecBucket == InitBucket /\ [][NextBucket]_vars

\* ------------------------------------------------------------ save_to_s3 alone
\* save_to_s3 applied to any payload, any city of the list and any key identifier
SaveCall ==
    /\ pc = "save"
    /\ save_to_s3(cities[idx])
    /\ pc' = "report"
    /\ UNCHANGED idx

InitSave ==
    /\ pc = "save"
    /\ idx \in DOMAIN cities
    /\ environ = PyNone
    /\ kms_key_id \in KeyValues
    /\ bucketExists \in BOOLEAN
    /\ weather_data \in {NoData} \cup {Dict(ks) : ks \in SUBSET PayloadFields}
    /\ success = "unbound"
    /\ calls = <<>>
    /\ console = <<>>

NextSave == SaveCall

SpecSave == InitSave /\ [][NextSave]_vars

\* ---------------------------------------------------------------- properties
\* the entries of calls made on behalf of a method: its entry and the external
\* calls it makes on the way
MethodOps == {"create_kms_key_if_not_exists", "create_bucket_if_not_exists",
              "fetch_weather", "save_to_s3"}

\* the position of the method entry that the entry at position i belongs to
InvocationOf(i) ==
    CHOOSE j \in 1..i :
        /\ calls[j].op \in MethodOps
        /\ \A k \in (j+1)..i : calls[k].op \notin MethodOps

\* positions of calls holding an entry with the given op
At(op) == {i \in DOMAIN calls : calls[i].op = op}

\* C1: whenever a put_object is issued, a put_bucket_encryption call with the
\* same key identifier has succeeded before it.
C1_WriteOnlyToEncryptedBucket ==
    \A i \in At("put_object") :
        \E j \in At("put_bucket_encryption") :
            /\ j < i
            /\ calls[j].ok
            /\ calls[j].key = calls[i].key

\* C2: no exception escapes main(): main() never ends by an uncaught error.
C2_NoExceptionEscapes == pc # "crashed"

\* C3: when main() has ended, fetch_weather has been called exactly once for
\* each of Calgary, Ontario and New York.
C3_EveryCityFetchedOnce ==
    pc \in {"done", "crashed"} =>
        \A c \in {"Calgary", "Ontario", "New York"} :
            Cardinality({i \in At("fetch_weather") : calls[i].city = c}) = 1

\* C4: a save_to_s3 call on a non-empty payload while kms_key_id is unset
\* returns False and leaves the caller's payload as it was (no timestamp added).
C4_RejectLeavesPayloadUnchanged ==
    [][(pc = "save" /\ Truthy(weather_data) /\ ~KeySet(kms_key_id))
          => (success' = "False" /\ weather_data' = weather_data)]_vars

\* C5: once create_kms_key_if_not_exists has returned, kms_key_id never changes,
\* and the key identifier of every put_bucket_encryption and of every put_object
\* is that one value.
C5_KeyFixedAfterProvisioning ==
    /\ [](pc # "kms" =>
            \A i \in At("put_bucket_encryption") \cup At("put_object") :
                calls[i].key = kms_key_id)
    /\ [][pc # "kms" => kms_key_id' = kms_key_id]_vars

C5_Witness ==
    /\ pc = "done"
    /\ \E i \in At("put_bucket_encryption") : calls[i].key = "key-new"
    /\ Cardinality(At("put_object")) = Len(cities)

\* C6: a save_to_s3 call made while kms_key_id is unset (None or empty) issues
\* no put_object and returns False, for every payload and every city.
C6_NoSaveWithoutKey ==
    /\ \A i \in At("save_to_s3") :
          ~KeySet(calls[i].key) =>
              \A j \in At("put_object") : InvocationOf(j) # i
    /\ (pc = "report" /\ ~KeySet(kms_key_id)) => success = "False"

C6_Witness ==
    /\ pc = "report"
    /\ kms_key_id = ""
    /\ weather_data.keys = PayloadFields \cup {"timestamp"}
    /\ success = "False"

\* C7: for a city whose fetch returned no data (None, or an empty payload),
\* neither save_to_s3 nor put_object is invoked.
C7_NoDataNoWrite ==
    \A i \in At("get") :
        ~Truthy(calls[i].data) =>
            \A j \in At("save_to_s3") \cup At("put_object") :
                calls[j].city # calls[i].city

C7_Witness ==
    /\ pc = "done"
    /\ \E i \in At("get") : ~calls[i].ok /\ calls[i].city = "Calgary"
    /\ \E i \in At("get") : calls[i].data = Dict({}) /\ calls[i].city = "Ontario"
    /\ \E i \in At("put_object") : calls[i].city = "New York"

\* C8: an invocation of create_bucket_if_not_exists in which head_bucket reports
\* the bucket issues neither create_bucket nor put_bucket_encryption, whether or
\* not a key identifier is set; so it is for a second invocation that finds the
\* bucket the first one created.
C8_FoundBucketLeftAlone ==
    \A i \in At("head_bucket") :
        calls[i].ok =>
            \A j \in At("create_bucket") \cup At("put_bucket_encryption") :
                InvocationOf(j) # InvocationOf(i)

C8_Witness ==
    /\ KeySet(kms_key_id)
    /\ Len(calls) = 6
    /\ calls[3].op = "create_bucket" /\ calls[3].ok
    /\ calls[4].op = "put_bucket_encryption" /\ calls[4].ok
    /\ calls[5].op = "create_bucket_if_not_exists"
    /\ calls[6].op = "head_bucket" /\ calls[6].ok

\* the key-creation call was made and gave no identifier
KeyCreationFailed == \E i \in At("create_key") : calls[i].key = PyNone

\* C9: when no key identifier is configured and key creation fails, kms_key_id
\* stays unset, create_bucket_if_not_exists calls create_bucket for a bucket it
\* did not find, never calls put_bucket_encryption, prints the omission once the
\* bucket is created, and every save_to_s3 returns False without a put_object.
C9_NoKeyNoEncryptionNoWrite ==
    (pc # "kms" /\ KeyCreationFailed) =>
        /\ ~KeySet(kms_key_id)
        /\ At("put_bucket_encryption") = {}
        /\ \A i \in At("head_bucket") :
              ~calls[i].ok =>
                  /\ i + 1 \in At("create_bucket")
                  /\ calls[i+1].ok <=>
                        \E m \in DOMAIN console :
                            console[m] = "Error: KMS key ID is not set. Bucket encryption skipped."
        /\ At("put_object") = {}
        /\ pc = "report" => success = "False"

C9_Witness ==
    /\ pc = "done"
    /\ KeyCreationFailed
    /\ \E i \in At("create_bucket") : calls[i].ok
    /\ Cardinality(At("save_to_s3")) = Len(cities)

\* the place of a service call in the order of main(): the key service, then
\* the bucket, then for Calgary, Ontario and New York in turn the weather
\* request and then the write
CallRank(e) ==
    LET cityRank == CASE e.city = "Calgary"  -> 1
                      [] e.city = "Ontario"  -> 2
                      [] e.city = "New York" -> 3
                      [] OTHER               -> 0
    IN  CASE e.op \in {"create_kms_key_if_not_exists", "create_key"} -> 0
          [] e.op \in {"create_bucket_if_not_exists", "head_bucket",
                       "create_bucket", "put_bucket_encryption"} -> 1
          [] e.op \in {"fetch_weather", "get"} -> 2 * cityRank
          [] OTHER -> 2 * cityRank + 1

\* C10: the calls of a run are made in the order key service, bucket, then per
\* city in the order Calgary, Ontario, New York the weather request followed by
\* that city's write; no call is made out of that order.
C10_CallsInLinearOrder ==
    \A i, j \in DOMAIN calls : i < j => CallRank(calls[i]) <= CallRank(calls[j])

C10_Witness ==
    /\ pc = "done"
    /\ \E i \in At("create_key") : calls[i].ok
    /\ At("put_bucket_encryption") # {}
    /\ \A c \in {"Calgary", "Ontario", "New York"} :
          \E i \in At("put_object") : calls[i].city = c

====
